---- MODULE Spec2Model ----
(***************************************************************************)
(* Pitch Speed Equivalency Calculator: the four functions of utils.py and  *)
(* the Streamlit script main.py that calls them.                           *)
(*                                                                         *)
(* Python numbers are modelled as tagged values.  A finite int or float is *)
(* an exact rational n/d in lowest terms (tag "num"); the float values     *)
(* nan, inf, -inf and sys.float_info.max carry their own tags and follow   *)
(* IEEE-754 comparison and arithmetic; "str" and "none" stand for values   *)
(* that are neither int nor float.  Rounding of finite double results is   *)
(* not modelled: finite arithmetic is exact.                               *)
(***************************************************************************)
EXTENDS Integers, Sequences, FiniteSets, TLC

VARIABLES
    session_speed,      \* st.session_state.speed
    session_distance,   \* st.session_state.distance
    preset_selector,    \* st.session_state.preset_selector (the selectbox's key)
    pending,            \* the slider interaction that triggered the running pass
    interactions,       \* user interactions so far in the session
    pc,                 \* position of the script pass
    speed,              \* main.py local: speed
    distance,           \* main.py local: distance
    errors,             \* main.py local: errors
    shown,              \* messages passed to st.error, in order
    reaction_time,      \* main.py local: reaction_time
    distances,          \* main.py local: distances
    equiv_speeds,       \* main.py local: equiv_speeds
    ref_i,              \* index of the reference-distance loop
    traces,             \* fig.add_trace calls, in order
    vlines,             \* fig.add_vline calls, in order
    info,               \* text passed to st.info
    back                \* result of the round-trip evaluation

vars == <<session_speed, session_distance, preset_selector, pending,
          interactions, pc, speed, distance, errors, shown, reaction_time,
          distances, equiv_speeds, ref_i, traces, vlines, info, back>>

---------------------------------------------------------------------------
(* Python values *)

Abs(x) == IF x < 0 THEN -x ELSE x

RECURSIVE GCD(_, _)
GCD(a, b) == IF b = 0 THEN a ELSE GCD(b, a % b)

\* The finite number n/d (d > 0), in lowest terms.
Rat(n, d) ==
    LET g == GCD(Abs(n), d)
    IN  [t |-> "num", n |-> n \div g, d |-> d \div g]

IntV(n) == Rat(n, 1)

NaN    == [t |-> "nan",  n |-> 0, d |-> 1]   \* float('nan')
Inf    == [t |-> "inf",  n |-> 0, d |-> 1]   \* float('inf')
NegInf == [t |-> "ninf", n |-> 0, d |-> 1]   \* float('-inf')
FMax   == [t |-> "fmax", n |-> 0, d |-> 1]   \* sys.float_info.max
StrV   == [t |-> "str",  n |-> 0, d |-> 1]   \* a str
NoneV  == [t |-> "none", n |-> 0, d |-> 1]   \* None

\* isinstance(x, (int, float))
IsIntOrFloat(x) == x.t \in {"num", "nan", "inf", "ninf", "fmax"}

\* Position of a non-nan number class on the extended real line.
Rank(x) ==
    CASE x.t = "ninf" -> 0
      [] x.t = "num"  -> 1
      [] x.t = "fmax" -> 2
      [] x.t = "inf"  -> 3

\* a < b, a == b, a <= b, a > b, a != b on ints and floats: every ordered
\* comparison with nan is False, and nan equals nothing.
Lt(a, b) ==
    /\ a.t # "nan" /\ b.t # "nan"
    /\ IF a.t = "num" /\ b.t = "num"
       THEN a.n * b.d < b.n * a.d
       ELSE Rank(a) < Rank(b)

Eq(a, b) == a.t # "nan" /\ b.t # "nan" /\ a = b

Le(a, b) == Lt(a, b) \/ Eq(a, b)

Gt(a, b) == Lt(b, a)

Ne(a, b) == ~Eq(a, b)

\* -1, 0 or 1 for a non-nan number.
Sign(x) ==
    CASE x.t = "num"  -> (IF x.n > 0 THEN 1 ELSE IF x.n < 0 THEN -1 ELSE 0)
      [] x.t = "ninf" -> -1
      [] x.t \in {"inf", "fmax"} -> 1

---------------------------------------------------------------------------
(* Exact arithmetic on finite numbers *)

RatMul(a, b) ==
    LET g1 == GCD(Abs(a.n), b.d)
        g2 == GCD(Abs(b.n), a.d)
    IN  Rat((a.n \div g1) * (b.n \div g2), (a.d \div g2) * (b.d \div g1))

\* b # 0
RatDiv(a, b) ==
    RatMul(a, IF b.n < 0 THEN Rat(-b.d, -b.n) ELSE Rat(b.d, b.n))

RatAdd(a, b) == Rat(a.n * b.d + b.n * a.d, a.d * b.d)

RatSub(a, b) == Rat(a.n * b.d - b.n * a.d, a.d * b.d)

\* math.ceil of a finite number
Ceil(a) == -((-a.n) \div a.d)

Infinity(sign) == IF sign > 0 THEN Inf ELSE NegInf

\* a * b on Python floats.  The product of sys.float_info.max and a factor
\* above 1 overflows to inf.
PyMul(a, b) ==
    CASE a.t = "nan" \/ b.t = "nan" -> NaN
      [] a.t = "num" /\ b.t = "num" -> RatMul(a, b)
      [] a.t \in {"inf", "ninf"} /\ b.t # "nan" ->
            IF Sign(b) = 0 THEN NaN ELSE Infinity(Sign(a) * Sign(b))
      [] b.t \in {"inf", "ninf"} /\ a.t \in {"num", "fmax"} ->
            IF Sign(a) = 0 THEN NaN ELSE Infinity(Sign(a) * Sign(b))
      [] a.t = "fmax" /\ b.t = "num" /\ Gt(b, IntV(1)) -> Inf
      [] a.t = "fmax" /\ b.t = "num" /\ Eq(b, IntV(1)) -> FMax
      [] a.t = "fmax" /\ b.t = "num" /\ Eq(b, IntV(0)) -> IntV(0)
      [] a.t = "fmax" /\ b.t = "fmax" -> Inf

ZeroDivisionError == [t |-> "ZeroDivisionError", n |-> 0, d |-> 1]

\* a / b on Python scalars: a zero divisor raises ZeroDivisionError.
PyDiv(a, b) ==
    CASE b.t = "num" /\ b.n = 0 -> ZeroDivisionError
      [] b.t = "nan" \/ a.t = "nan" -> NaN
      [] a.t = "num" /\ b.t = "num" -> RatDiv(a, b)
      [] a.t = "num" /\ b.t \in {"inf", "ninf"} -> IntV(0)
      [] a.t \in {"inf", "ninf"} /\ b.t \in {"inf", "ninf"} -> NaN
      [] a.t \in {"inf", "ninf"} /\ b.t \in {"num", "fmax"} ->
            Infinity(Sign(a) * Sign(b))
      [] a.t = "fmax" /\ b.t \in {"inf", "ninf"} -> IntV(0)
      [] a.t = "fmax" /\ b.t = "fmax" -> IntV(1)

\* a / b on a numpy float64 element: a zero divisor gives inf, -inf or nan
\* (with a RuntimeWarning), never an exception.
NpDiv(a, b) ==
    CASE a.t = "nan" \/ b.t = "nan" -> NaN
      [] b.t = "num" /\ b.n = 0 ->
            IF Sign(a) = 0 THEN NaN ELSE Infinity(Sign(a))
      [] a.t = "num" /\ b.t = "num" -> RatDiv(a, b)
      [] a.t = "num" /\ b.t \in {"inf", "ninf"} -> IntV(0)
      [] a.t \in {"inf", "ninf"} /\ b.t \in {"inf", "ninf"} -> NaN
      [] a.t \in {"inf", "ninf"} /\ b.t \in {"num", "fmax"} ->
            Infinity(Sign(a) * Sign(b))
      [] a.t = "fmax" /\ b.t \in {"inf", "ninf"} -> IntV(0)
      [] a.t = "fmax" /\ b.t = "fmax" -> IntV(1)

---------------------------------------------------------------------------
(* utils.py *)

MPH_TO_FPS == Rat(1467, 1000)          \* the literal 1.467

SpeedMessage    == "Speed must be a positive number"
DistanceMessage == "Distance must be between 15 and 60.5 feet"

\* Mutant: the speed taken as feet per second, without the conversion.
calculate_reaction_time_unconverted(s, dist) ==
    LET speed_ft_per_sec == s
    IN  PyDiv(dist, speed_ft_per_sec)

calculate_reaction_time(s, dist) ==
    LET speed_ft_per_sec == PyMul(s, MPH_TO_FPS)
    IN  PyDiv(dist, speed_ft_per_sec)

\* Mutant: the conversion back to mph made with 1.47 instead of 1.467.
calculate_equivalent_speeds_rounded(target_time, dists) ==
    [i \in DOMAIN dists |->
        NpDiv(NpDiv(dists[i], target_time), Rat(147, 100))]

\* Mutant: the feet per second returned without the conversion to mph.
calculate_equivalent_speeds_unconverted(target_time, dists) ==
    [i \in DOMAIN dists |-> NpDiv(dists[i], target_time)]

\* Mutant: the first distance used for every element.
calculate_equivalent_speeds_first(target_time, dists) ==
    [i \in DOMAIN dists |-> NpDiv(NpDiv(dists[1], target_time), MPH_TO_FPS)]

\* distances is a numpy array at both call sites; the result has its shape.
calculate_equivalent_speeds(target_time, dists) ==
    [i \in DOMAIN dists |-> NpDiv(NpDiv(dists[i], target_time), MPH_TO_FPS)]

\* np.arange(start, stop, step): ceil((stop - start) / step) elements,
\* element i being start + i * step.
arange(start, stop, step) ==
    LET length == Ceil(RatDiv(RatSub(stop, start), step))
    IN  [i \in 1..length |-> RatAdd(start, RatMul(IntV(i - 1), step))]

\* Mutant: the range stopped at 60.5, which np.arange leaves out.
generate_distance_range_open == arange(IntV(15), Rat(121, 2), Rat(1, 2))

generate_distance_range == arange(IntV(15), IntV(61), Rat(1, 2))

validate_inputs(s, dist) ==
    LET speed_errors ==
            IF ~IsIntOrFloat(s) \/ Le(s, IntV(0))
            THEN <<SpeedMessage>> ELSE <<>>
        distance_errors ==
            IF ~IsIntOrFloat(dist) \/ Lt(dist, IntV(15)) \/ Gt(dist, Rat(121, 2))
            THEN <<DistanceMessage>> ELSE <<>>
    IN  speed_errors \o distance_errors

---------------------------------------------------------------------------
(* Python string formatting *)

RECURSIVE Pow10(_)
Pow10(k) == IF k = 0 THEN 1 ELSE 10 * Pow10(k - 1)

\* The integer nearest to n/d (d > 0), ties to the even one.
RoundHalfEven(n, d) ==
    LET q == n \div d
        r == n % d
    IN  IF 2 * r > d THEN q + 1
        ELSE IF 2 * r < d THEN q
        ELSE IF q % 2 = 0 THEN q ELSE q + 1

\* f"{x:.<digits>f}": the decimal with that many fraction digits nearest to
\* x, given as the integer count of units of 10^-digits; nan and inf print
\* as themselves.
Format(x, digits) ==
    IF x.t = "num"
    THEN [text |-> "fixed", digits |-> digits,
          units |-> RoundHalfEven(x.n * Pow10(digits), x.d)]
    ELSE [text |-> x.t, digits |-> digits, units |-> 0]

---------------------------------------------------------------------------
(* main.py: presets and the preset selector *)

preset_labels == <<"BP", "10U", "12U", "HS", "Pro">>

\* presets[label] = (speed_mph, distance_ft)
presets ==
    [label \in {"BP", "10U", "12U", "HS", "Pro"} |->
        CASE label = "BP"  -> <<IntV(40), IntV(20)>>
          [] label = "10U" -> <<IntV(50), IntV(42)>>
          [] label = "12U" -> <<IntV(60), IntV(46)>>
          [] label = "HS"  -> <<IntV(80), IntV(54)>>
          [] label = "Pro" -> <<IntV(95), IntV(54)>>]

\* An option of the selectbox: "Custom", or f"{label} ({speed} mph @ {dist} ft)"
\* kept as the label before " (" and the two formatted fields after it.
Custom == [label |-> "Custom", fields |-> <<>>]

PresetOption(label) == [label |-> label, fields |-> presets[label]]

preset_options ==
    <<Custom>> \o [i \in 1..Len(preset_labels) |-> PresetOption(preset_labels[i])]

\* 'preset_selector' not yet in st.session_state
Absent == [label |-> "", fields |-> <<>>]

\* The index into preset_options of the first preset equal to the session's
\* speed and distance, 0 (Custom) when there is none.
get_matching_preset_index(s, dist) ==
    LET matching == {i \in 1..Len(preset_labels) :
                        /\ Eq(s, presets[preset_labels[i]][1])
                        /\ Eq(dist, presets[preset_labels[i]][2])}
    IN  IF matching = {} THEN 0
        ELSE CHOOSE i \in matching : \A j \in matching : i <= j

\* selection.split(" (")[0]
SplitLabel(selection) == selection.label

\* The (speed, distance) of the session after on_preset_change ran.
on_preset_change(selection, s, dist) ==
    IF selection # Custom /\ SplitLabel(selection) \in DOMAIN presets
    THEN presets[SplitLabel(selection)]
    ELSE <<s, dist>>

---------------------------------------------------------------------------
(* Bounds and sampled inputs *)

\* User interactions followed in one session.
MaxInteractions == 2

\* Positions of the speed slider that a user is taken to move it to: its two
\* ends, the preset speeds and 90.  The slider itself offers 20..110 by 1.
SliderSpeeds == {IntV(s) : s \in {20, 40, 50, 60, 80, 90, 95, 110}}

\* Every position of the distance slider: 15.0 to 60.5 by 0.5.
SliderDistances == {Rat(k, 2) : k \in 30..121}

NoPending == [widget |-> "none", value |-> NoneV]

\* The values validate_inputs and the pass after it are applied to.
FnSpeeds ==
    {IntV(-5), IntV(0), Rat(1, 2), IntV(20), IntV(60), Rat(145, 2), IntV(90),
     IntV(110), NaN, Inf, NegInf, FMax, StrV, NoneV}

FnDistances ==
    {IntV(-1), IntV(0), Rat(1499, 100), IntV(15), IntV(20), Rat(149, 4),
     IntV(42), IntV(46), IntV(54), Rat(121, 2), Rat(6051, 100), IntV(61),
     NaN, Inf, NegInf, StrV, NoneV}

---------------------------------------------------------------------------
(* main.py: one pass of the script *)

\* The script's names at the start of a pass.
FreshLocals ==
    /\ speed = NoneV
    /\ distance = NoneV
    /\ errors = <<>>
    /\ shown = <<>>
    /\ reaction_time = NoneV
    /\ distances = <<>>
    /\ equiv_speeds = <<>>
    /\ ref_i = 0
    /\ traces = <<>>
    /\ vlines = <<>>
    /\ info = Format(NoneV, 3)

\* A fresh session, lines 36-40 done: speed 60, distance 46.0.
Init ==
    /\ session_speed = IntV(60)
    /\ session_distance = IntV(46)
    /\ preset_selector = Absent
    /\ pending = NoPending
    /\ interactions = 0
    /\ pc = "selectbox"
    /\ back = NoneV
    /\ FreshLocals

\* Lines 77-84: st.selectbox(..., index=current_index, key="preset_selector").
\* The index is the widget's value only while the key holds none.
Selectbox ==
    /\ pc = "selectbox"
    /\ LET current_index ==
               get_matching_preset_index(session_speed, session_distance)
       IN  preset_selector' =
               IF preset_selector = Absent
               THEN preset_options[current_index + 1]
               ELSE preset_selector
    /\ pc' = "speed_slider"
    /\ UNCHANGED <<session_speed, session_distance, pending, interactions,
                   speed, distance, errors, shown, reaction_time, distances,
                   equiv_speeds, ref_i, traces, vlines, info, back>>

\* Lines 89-95: the slider returns the position the user moved it to, or its
\* value argument when the user did not move it.
SpeedSlider ==
    /\ pc = "speed_slider"
    /\ speed' = IF pending.widget = "speed" THEN pending.value ELSE session_speed
    /\ session_speed' = speed'
    /\ pc' = "distance_slider"
    /\ UNCHANGED <<session_distance, preset_selector, pending, interactions,
                   distance, errors, shown, reaction_time, distances,
                   equiv_speeds, ref_i, traces, vlines, info, back>>

\* Lines 98-105.
DistanceSlider ==
    /\ pc = "distance_slider"
    /\ distance' = IF pending.widget = "distance" THEN pending.value
                   ELSE session_distance
    /\ session_distance' = distance'
    /\ pending' = NoPending
    /\ pc' = "reset_check"
    /\ UNCHANGED <<session_speed, preset_selector, interactions, speed,
                   errors, shown, reaction_time, distances, equiv_speeds,
                   ref_i, traces, vlines, info, back>>

\* Lines 108-111: with no matching preset and a selector other than Custom,
\* the selector is set to Custom and st.rerun() starts the script again.
ResetCheck ==
    /\ pc = "reset_check"
    /\ IF /\ get_matching_preset_index(session_speed, session_distance) = 0
          /\ preset_selector # Custom
       THEN /\ preset_selector' = Custom
            /\ pc' = "selectbox"
            /\ speed' = NoneV
            /\ distance' = NoneV
       ELSE /\ pc' = "validate"
            /\ UNCHANGED <<preset_selector, speed, distance>>
    /\ UNCHANGED <<session_speed, session_distance, pending, interactions,
                   errors, shown, reaction_time, distances, equiv_speeds,
                   ref_i, traces, vlines, info, back>>

\* Lines 114-115, 118.
Validate ==
    /\ pc = "validate"
    /\ errors' = validate_inputs(speed, distance)
    /\ pc' = IF errors' # <<>> THEN "show_errors" ELSE "reaction_time"
    /\ UNCHANGED <<session_speed, session_distance, preset_selector, pending,
                   interactions, speed, distance, shown, reaction_time,
                   distances, equiv_speeds, ref_i, traces, vlines, info, back>>

\* Lines 116-117: one turn of "for error in errors: st.error(error)".
ShowError ==
    /\ pc = "show_errors"
    /\ shown' = Append(shown, errors[Len(shown) + 1])
    /\ pc' = IF Len(shown') = Len(errors) THEN "done" ELSE "show_errors"
    /\ UNCHANGED <<session_speed, session_distance, preset_selector, pending,
                   interactions, speed, distance, errors, reaction_time,
                   distances, equiv_speeds, ref_i, traces, vlines, info, back>>

\* Line 120.
ReactionTime ==
    /\ pc = "reaction_time"
    /\ reaction_time' = calculate_reaction_time(speed, distance)
    /\ pc' = "distance_range"
    /\ UNCHANGED <<session_speed, session_distance, preset_selector, pending,
                   interactions, speed, distance, errors, shown, distances,
                   equiv_speeds, ref_i, traces, vlines, info, back>>

\* Line 123.
DistanceRange ==
    /\ pc = "distance_range"
    /\ distances' = generate_distance_range
    /\ pc' = "equivalent_speeds"
    /\ UNCHANGED <<session_speed, session_distance, preset_selector, pending,
                   interactions, speed, distance, errors, shown, reaction_time,
                   equiv_speeds, ref_i, traces, vlines, info, back>>

\* Line 124.
EquivalentSpeeds ==
    /\ pc = "equivalent_speeds"
    /\ equiv_speeds' = calculate_equivalent_speeds(reaction_time, distances)
    /\ pc' = "figure"
    /\ UNCHANGED <<session_speed, session_distance, preset_selector, pending,
                   interactions, speed, distance, errors, shown, reaction_time,
                   distances, ref_i, traces, vlines, info, back>>

Trace(name, x, y, text) == [name |-> name, x |-> x, y |-> y, text |-> text]

\* Lines 127-148: the curve and the point of the input.
Figure ==
    /\ pc = "figure"
    /\ traces' = <<Trace("Eqv. MPH", distances, equiv_speeds, <<>>),
                   Trace("Your Input", <<distance>>, <<speed>>, <<speed>>)>>
    /\ ref_i' = 1
    /\ pc' = "reference"
    /\ UNCHANGED <<session_speed, session_distance, preset_selector, pending,
                   interactions, speed, distance, errors, shown, reaction_time,
                   distances, equiv_speeds, vlines, info, back>>

common_distances == <<IntV(20), IntV(42), IntV(46), IntV(54)>>

common_distance_names ==
    <<"BP (20ft)", "10U (42ft)", "12U (46ft)", "HS/Pro (54ft)">>

\* Mutant: the reference added whatever the input distance is.
AddsReference_always(dist, input_distance) == TRUE

\* Line 162: "if dist != distance"
AddsReference(dist, input_distance) == Ne(dist, input_distance)

\* Lines 156-181: one turn of the loop over the reference distances.
Reference ==
    /\ pc = "reference"
    /\ ref_i <= Len(common_distances)
    /\ LET dist == common_distances[ref_i]
           name == common_distance_names[ref_i]
           equiv_speed ==
               calculate_equivalent_speeds(reaction_time, <<dist>>)[1]
       IN  IF AddsReference(dist, distance)
           THEN /\ vlines' = Append(vlines, [x |-> dist, line_color |-> "gray"])
                /\ traces' = Append(traces,
                       Trace(name, <<dist>>, <<equiv_speed>>,
                             <<Format(equiv_speed, 1)>>))
           ELSE UNCHANGED <<vlines, traces>>
    /\ ref_i' = ref_i + 1
    /\ UNCHANGED <<session_speed, session_distance, preset_selector, pending,
                   interactions, pc, speed, distance, errors, shown,
                   reaction_time, distances, equiv_speeds, info, back>>

\* Lines 183-210: the line of the input, the chart and the reaction time.
Display ==
    /\ pc = "reference"
    /\ ref_i > Len(common_distances)
    /\ vlines' = Append(vlines, [x |-> distance, line_color |-> "red"])
    /\ info' = Format(reaction_time, 3)
    /\ pc' = "done"
    /\ UNCHANGED <<session_speed, session_distance, preset_selector, pending,
                   interactions, speed, distance, errors, shown, reaction_time,
                   distances, equiv_speeds, ref_i, traces, back>>

---------------------------------------------------------------------------
(* main.py: what the user does between passes *)

\* Streamlit runs the script again from its first line; lines 37-40 leave
\* the session as it is.
Rerun ==
    /\ pc' = "selectbox"
    /\ interactions' = interactions + 1
    /\ speed' = NoneV
    /\ distance' = NoneV
    /\ errors' = <<>>
    /\ shown' = <<>>
    /\ reaction_time' = NoneV
    /\ distances' = <<>>
    /\ equiv_speeds' = <<>>
    /\ ref_i' = 0
    /\ traces' = <<>>
    /\ vlines' = <<>>
    /\ info' = Format(NoneV, 3)
    /\ UNCHANGED back

\* The user picks another option: the key takes it, on_preset_change runs
\* (lines 54-59), then the script.
SelectPreset ==
    /\ pc = "done"
    /\ interactions < MaxInteractions
    /\ \E i \in 1..Len(preset_options) :
          /\ preset_options[i] # preset_selector
          /\ preset_selector' = preset_options[i]
          /\ LET pair == on_preset_change(preset_options[i], session_speed,
                                          session_distance)
             IN  /\ session_speed' = pair[1]
                 /\ session_distance' = pair[2]
    /\ pending' = NoPending
    /\ Rerun

MoveSpeedSlider ==
    /\ pc = "done"
    /\ interactions < MaxInteractions
    /\ \E v \in SliderSpeeds :
          /\ Ne(v, session_speed)
          /\ pending' = [widget |-> "speed", value |-> v]
    /\ Rerun
    /\ UNCHANGED <<session_speed, session_distance, preset_selector>>

MoveDistanceSlider ==
    /\ pc = "done"
    /\ interactions < MaxInteractions
    /\ \E v \in SliderDistances :
          /\ Ne(v, session_distance)
          /\ pending' = [widget |-> "distance", value |-> v]
    /\ Rerun
    /\ UNCHANGED <<session_speed, session_distance, preset_selector>>

Next ==
    \/ Selectbox
    \/ SpeedSlider
    \/ DistanceSlider
    \/ ResetCheck
    \/ Validate
    \/ ReactionTime
    \/ DistanceRange
    \/ EquivalentSpeeds
    \/ Figure
    \/ Reference
    \/ Display
    \/ SelectPreset
    \/ MoveSpeedSlider
    \/ MoveDistanceSlider

Spec == Init /\ [][Next]_vars

---------------------------------------------------------------------------
(* The functions of utils.py on arbitrary Python values: the pass from     *)
(* line 113 on, entered with any speed and distance, followed by the       *)
(* round trip through both formulas.                                       *)

InitFn ==
    /\ session_speed = IntV(60)
    /\ session_distance = IntV(46)
    /\ preset_selector = Custom
    /\ pending = NoPending
    /\ interactions = 0
    /\ pc = "validate"
    /\ back = NoneV
    /\ speed \in FnSpeeds
    /\ distance \in FnDistances
    /\ errors = <<>>
    /\ shown = <<>>
    /\ reaction_time = NoneV
    /\ distances = <<>>
    /\ equiv_speeds = <<>>
    /\ ref_i = 0
    /\ traces = <<>>
    /\ vlines = <<>>
    /\ info = Format(NoneV, 3)

\* calculate_equivalent_speeds(calculate_reaction_time(speed, distance),
\* np.array([distance]))[0]
RoundTrip ==
    /\ pc = "done"
    /\ errors = <<>>
    /\ back' = calculate_equivalent_speeds(
                   calculate_reaction_time(speed, distance), <<distance>>)[1]
    /\ pc' = "round_trip"
    /\ UNCHANGED <<session_speed, session_distance, preset_selector, pending,
                   interactions, speed, distance, errors, shown, reaction_time,
                   distances, equiv_speeds, ref_i, traces, vlines, info>>

NextFn ==
    \/ Validate
    \/ ShowError
    \/ ReactionTime
    \/ DistanceRange
    \/ EquivalentSpeeds
    \/ Figure
    \/ Reference
    \/ Display
    \/ RoundTrip

SpecFn == InitFn /\ [][NextFn]_vars

---------------------------------------------------------------------------
(* Properties *)

\* x is a number: an int or a float other than nan.
IsNumericValue(x) == x.t \in {"num", "inf", "ninf", "fmax"}

\* x is a number strictly greater than 0.
IsPositiveNumber(x) == IsNumericValue(x) /\ Sign(x) > 0

\* x is a number with 15 <= x <= 60.5.
IsInDomain(x) == x.t = "num" /\ 15 * x.d <= x.n /\ 2 * x.n <= 121 * x.d

Elements(seq) == {seq[i] : i \in DOMAIN seq}

Validated == pc # "validate"

Computed == pc \in {"distance_range", "equivalent_speeds", "figure",
                    "reference", "done", "round_trip"} /\ errors = <<>>

Scenario == pc = "done" /\ errors = <<>> /\ Eq(speed, IntV(90))
            /\ Eq(distance, Rat(121, 2))

\* floor(x * 10^digits) of a finite number
Truncated(x, digits) == (x.n * Pow10(digits)) \div x.d

\* C1: validate_inputs returns the empty list exactly when speed is a number
\* strictly greater than 0 and distance is a number in [15, 60.5]; a speed
\* that is not gets the speed message, a distance that is not gets the
\* distance message.
C1_ValidateIff ==
    Validated =>
        /\ (errors = <<>>) <=> (IsPositiveNumber(speed) /\ IsInDomain(distance))
        /\ ~IsPositiveNumber(speed) => SpeedMessage \in Elements(errors)
        /\ ~IsInDomain(distance) => DistanceMessage \in Elements(errors)

\* C2: the list holds one message per invalid input, the speed message before
\* the distance message, two when both are invalid; and every message of the
\* list has been displayed once the pass is over.
C2_OneMessagePerViolation ==
    Validated =>
        /\ Len(errors) = (IF IsPositiveNumber(speed) THEN 0 ELSE 1)
                         + (IF IsInDomain(distance) THEN 0 ELSE 1)
        /\ ~IsPositiveNumber(speed) => errors[1] = SpeedMessage
        /\ ~IsInDomain(distance) => errors[Len(errors)] = DistanceMessage
        /\ pc = "done" => shown = errors

\* C3: the formulas run only after validate_inputs returned the empty list,
\* and then both divisors, speed * 1.467 and the reaction time, are strictly
\* greater than 0.
C3_ValidatedDivisorsPositive ==
    /\ pc \in {"reaction_time", "distance_range", "equivalent_speeds",
               "figure", "reference"} => errors = <<>>
    /\ Computed =>
          /\ Gt(PyMul(speed, MPH_TO_FPS), IntV(0))
          /\ Gt(reaction_time, IntV(0))

IsFiniteNonZero(x) == x.t = "num" /\ x.n # 0

C5_DistanceRange ==
    Computed /\ pc # "distance_range" =>
        /\ Len(distances) = 92
        /\ distances[1] = IntV(15)
        /\ distances[Len(distances)] = Rat(121, 2)
        /\ \A i \in 1..(Len(distances) - 1) :
              RatSub(distances[i + 1], distances[i]) = Rat(1, 2)

C5_Witness ==
    pc = "equivalent_speeds" /\ Len(distances) = 92
    /\ distances[92] = Rat(121, 2)

\* C6, as claimed: the reaction time for 90 mph at 60.5 ft is 0.45716...
\* seconds, displayed as 0.457.
C6_ReactionTime457 ==
    Scenario =>
        /\ Truncated(reaction_time, 5) = 45716
        /\ info = [text |-> "fixed", digits |-> 3, units |-> 457]

\* C6, amended: the reaction time for 90 mph at 60.5 ft is 60.5 / (90 * 1.467)
\* = 0.45822... seconds, displayed as 0.458.
C6_ReactionTime458 ==
    Scenario =>
        /\ reaction_time = RatDiv(Rat(121, 2), RatMul(IntV(90), Rat(1467, 1000)))
        /\ Truncated(reaction_time, 5) = 45822
        /\ info = [text |-> "fixed", digits |-> 3, units |-> 458]

C6_Witness ==
    Scenario /\ info.units = 458 /\ Truncated(reaction_time, 5) = 45822

\* The trace of the reference distance 46 ft.
Trace46 == {tr \in Elements(traces) : tr.name = "12U (46ft)"}

\* C7, as claimed: for the reaction time of 90 mph at 60.5 ft the equivalent
\* speed at 46 ft is labelled 68.6 mph, below 90 in proportion to the distance.
C7_Equivalent686 ==
    Scenario =>
        /\ Trace46 # {}
        /\ \A tr \in Trace46 :
              /\ tr.text = <<[text |-> "fixed", digits |-> 1, units |-> 686]>>
              /\ Lt(tr.y[1], speed)
              /\ RatDiv(tr.y[1], speed) = RatDiv(tr.x[1], distance)

\* C7, amended: the equivalent speed at 46 ft is 90 * 46 / 60.5 = 68.43...,
\* labelled 68.4 mph, below 90 in proportion to the distance.
C7_Equivalent684 ==
    Scenario =>
        /\ Trace46 # {}
        /\ \A tr \in Trace46 :
              /\ tr.text = <<[text |-> "fixed", digits |-> 1, units |-> 684]>>
              /\ tr.x = <<IntV(46)>>
              /\ Lt(tr.y[1], speed)
              /\ RatDiv(tr.y[1], speed) = RatDiv(tr.x[1], distance)

C7_Witness ==
    Scenario /\ \E tr \in Trace46 : tr.text[1].units = 684

GrayLines == {i \in DOMAIN vlines : vlines[i].line_color = "gray"}

ReferenceTraces ==
    {i \in DOMAIN traces : traces[i].name \in Elements(common_distance_names)}

\* C9: when a valid pass is over, each reference distance has its line and
\* its marker exactly when it differs from the input distance: 3 of them when
\* the input distance is a reference distance, 4 otherwise.
C9_ReferenceSuppression ==
    (pc = "done" /\ errors = <<>>) =>
        /\ \A k \in DOMAIN common_distances :
              LET drawn ==
                      /\ \E i \in GrayLines : vlines[i].x = common_distances[k]
                      /\ \E i \in ReferenceTraces :
                            /\ traces[i].name = common_distance_names[k]
                            /\ traces[i].x = <<common_distances[k]>>
                  any ==
                      \/ \E i \in GrayLines : vlines[i].x = common_distances[k]
                      \/ \E i \in ReferenceTraces :
                            traces[i].name = common_distance_names[k]
              IN  /\ drawn <=> ~(common_distances[k] = distance)
                  /\ any => drawn
        /\ Cardinality(GrayLines) = Cardinality(ReferenceTraces)
        /\ Cardinality(ReferenceTraces) =
              IF distance \in Elements(common_distances) THEN 3 ELSE 4

C9_Witness ==
    /\ pc = "done" /\ errors = <<>>
    /\ distance = IntV(46)
    /\ Cardinality(ReferenceTraces) = 3
    /\ \A i \in ReferenceTraces : traces[i].name # "12U (46ft)"

\* C10: when a pass is over, a selector that holds a preset holds the preset
\* of the session's speed and distance, and a session whose speed and
\* distance are those of no preset has the selector on Custom.
C10_SelectorMatchesSession ==
    pc = "done" =>
        /\ preset_selector # Custom =>
              <<session_speed, session_distance>> = preset_selector.fields
        /\ get_matching_preset_index(session_speed, session_distance) = 0
              => preset_selector = Custom

====
